---- MODULE Spec2Model ----
(***************************************************************************)
(* Model of bastion's Distributor (src/bastion/src/distributor.rs): a      *)
(* named group of ChildRefs addressed through the global dispatcher, with  *)
(* tell / ask / request operations and the reply correlation of the        *)
(* request, request_sync and request_timeout tasks.                        *)
(***************************************************************************)
EXTENDS Integers, Sequences, FiniteSets, TLC

\* ------------------------------------------------------------------ bounds
NumEndpoints == 2
MaxMailbox == 2
MaxSlots == 2
MaxCalls == 1

\* Distributor(Spur): one interned name handle per Distributor value.
Distributors == {"G", "H"}
\* ChildRef: the endpoints that can be subscribed.
ChildRefs == 1..NumEndpoints
\* oneshot reply channels created by the dispatcher's ask.
Slots == 1..MaxSlots
\* tasks spawned by request / request_sync / request_timeout.
Calls == 1..MaxCalls

\* Message bodies and the types a reply can have.
Messages == {"hello"}
Types == {"u8", "str"}
Replies == {[type |-> "u8", val |-> 42], [type |-> "u8", val |-> 7],
            [type |-> "str", val |-> 42]}
NoReply == [type |-> "none", val |-> 0]

\* The errors of the request family, by the text the code gives them.
TypeMismatch == "received a message with the wrong type"
ReplyFailed == "couldn't receive reply"
\* request and request_timeout add the Debug form of the await's error.
ReplyFailedDebug == "couldn't receive reply: {:?}"
Timeout == "operation timed out before finish"
\* The dispatcher's error for a group with no recipient.
Unreachable == "Unreachable"

\* Result values: Ok(v), Err(e), Ok(()) and Ok(Vec<()>) of n elements.
Ok(v) == [kind |-> "Ok", val |-> v, err |-> "none"]
Err(e) == [kind |-> "Err", val |-> 0, err |-> e]
OkUnit == Ok(0)
OkList(n) == [kind |-> "Ok", val |-> 0, err |-> "none", len |-> n]
NoResult == [kind |-> "None", val |-> 0, err |-> "none"]

\* ------------------------------------------------------------------- state
VARIABLES
    registry,   \* dispatcher: Distributor -> set of subscribed ChildRefs
    mailbox,    \* ChildRef -> sequence of messages accepted by its mailbox
    slots,      \* reply channel -> its state, the ChildRef it was sent to, the reply
    calls,      \* request task -> its record
    last,       \* the latest direct Distributor operation and what it returned
    emptied,    \* names whose last remaining subscriber was unsubscribed since
                \* the latest subscribe on them (history, read by no operation)
    closed,     \* ChildRefs whose mailbox is closed: a send to them fails
    interner,   \* STRING_INTERNER: the strings interned so far; a Spur is a position
    handles,    \* the Distributor values named has returned so far, each with the
                \* name it was asked for (history, read by no operation)
    broadcast   \* the tell_everyone or ask_everyone the dispatcher is delivering
                \* member by member, with the memberships its group has had since
                \* the call began (seen: history, read by no operation)

vars == <<registry, mailbox, slots, calls, last, emptied, closed, interner, handles,
          broadcast>>

TellMsg(m) == [kind |-> "tell", body |-> m, slot |-> 0]
AskMsg(q, s) == [kind |-> "ask", body |-> q, slot |-> s]

\* lost: the reply was sent when the receiving end was already dropped.
FreeSlot == [state |-> "free", to |-> 0, by |-> 0, reply |-> NoReply, lost |-> FALSE]
\* A request task: the function that spawned it, the Distributor, the question, the
\* expected reply type R, where the task stands (pc), the branch that ended it
\* (via), the reply channel it awaits, the Result its receiver holds and how many
\* times one was put there, whether the receiver is still held (rx), whether the
\* Delay has elapsed, and whether it elapsed while the reply was still pending.
NoCall == [variant |-> "none", name |-> "none", q |-> "none", R |-> "none", pc |-> "none",
           slot |-> 0, via |-> "none", result |-> NoResult, sent |-> 0, rx |-> "open",
           elapsed |-> FALSE, timerFirst |-> FALSE]
\* No broadcast is being delivered.
NoBroadcast == [phase |-> "idle", kind |-> "none", name |-> "none", body |-> "none",
                snap |-> {}, todo |-> {}, answers |-> <<>>, seen |-> {}]
NoOp == [op |-> "none", name |-> "none", arg |-> 0, pre |-> {}, res |-> NoResult]
\* The record of operation op on Distributor d with ChildRef argument e (0 when
\* it has none): pre is the group as it was when the operation began.
Returned(op, d, e, out) ==
    [op |-> op, name |-> d, arg |-> e, pre |-> registry[d], res |-> out]

Init ==
    /\ registry = [d \in Distributors |-> {}]
    /\ mailbox = [e \in ChildRefs |-> <<>>]
    /\ slots = [s \in Slots |-> FreeSlot]
    /\ calls = [c \in Calls |-> NoCall]
    /\ last = NoOp
    /\ emptied = {}
    /\ closed = {}
    /\ interner = <<>>
    /\ handles = {}
    /\ broadcast = NoBroadcast

\* ------------------------------------------------------------------ named
\* The strings a Distributor can be named with.
Names == Distributors
Interned(n) == \E k \in 1..Len(interner) : interner[k] = n
KeyOf(n) == CHOOSE k \in 1..Len(interner) : interner[k] = n

\* STRING_INTERNER.get_or_intern(name): the key the string already has, or, for
\* a string not yet interned, the next key, which the string then keeps.
get_or_intern(n, k) ==
    IF Interned(n)
    THEN /\ k = KeyOf(n)
         /\ interner' = interner
    ELSE /\ k = Len(interner) + 1
         /\ interner' = Append(interner, n)

\* named that interns the string again on every call.
named_fresh(n) ==
    /\ interner' = Append(interner, n)
    /\ handles' = handles \cup {[name |-> n, key |-> Len(interner) + 1]}
    /\ last' = Returned("named", n, 0, Ok(Len(interner) + 1))
    /\ UNCHANGED <<registry, mailbox, slots, calls, emptied, closed, broadcast>>

\* Distributor::named: Self(STRING_INTERNER.get_or_intern(name.as_ref()))
named(n) ==
    /\ \E k \in 1..(Len(interner) + 1) :
          /\ get_or_intern(n, k)
          /\ handles' = handles \cup {[name |-> n, key |-> k]}
          /\ last' = Returned("named", n, 0, Ok(k))
    /\ UNCHANGED <<registry, mailbox, slots, calls, emptied, closed, broadcast>>

\* --------------------------------------------------------------- registry
\* GlobalDispatcher::register_recipient: insert the ChildRef in the group.
register_recipient(d, e) ==
    registry' = [registry EXCEPT ![d] = @ \cup {e}]

\* GlobalDispatcher::remove_recipient: remove the ChildRef from each listed
\* group; an absent ChildRef is no error.
remove_recipient(ds, e) ==
    registry' = [d \in Distributors |->
                    IF d \in ds THEN registry[d] \ {e} ELSE registry[d]]

\* History: unsubscribing the only member of d marks d; a subscribe on d clears it.
NoteSubscribe(d) == emptied' = emptied \ {d}
NoteUnsubscribe(d, e) ==
    emptied' = IF registry[d] = {e} THEN emptied \cup {d} ELSE emptied

\* History: a change of the group a broadcast is being delivered to is recorded
\* with the broadcast.
NoteMembership(d) ==
    broadcast' = IF broadcast.phase = "sending" /\ broadcast.name = d
                 THEN [broadcast EXCEPT !.seen = @ \cup {registry'[d]}]
                 ELSE broadcast

\* subscribe that registers nothing.
subscribe_noop(d, e) ==
    /\ last' = Returned("subscribe", d, e, OkUnit)
    /\ NoteSubscribe(d)
    /\ UNCHANGED <<registry, mailbox, slots, calls, closed, interner, handles>>
    /\ NoteMembership(d)

\* subscribe that refuses an endpoint the group already has.
subscribe_strict(d, e) ==
    /\ register_recipient(d, e)
    /\ last' = Returned("subscribe", d, e,
                         IF e \in registry[d] THEN Err("AlreadySubscribed") ELSE OkUnit)
    /\ NoteSubscribe(d)
    /\ NoteMembership(d)
    /\ UNCHANGED <<mailbox, slots, calls, closed, interner, handles>>

\* Distributor::subscribe
subscribe(d, e) ==
    /\ register_recipient(d, e)
    /\ last' = Returned("subscribe", d, e, OkUnit)
    /\ NoteSubscribe(d)
    /\ NoteMembership(d)
    /\ UNCHANGED <<mailbox, slots, calls, closed, interner, handles>>

\* unsubscribe that passes no Distributor to remove_recipient.
unsubscribe_none(d, e) ==
    /\ remove_recipient({}, e)
    /\ last' = Returned("unsubscribe", d, e, OkUnit)
    /\ NoteUnsubscribe(d, e)
    /\ NoteMembership(d)
    /\ UNCHANGED <<mailbox, slots, calls, closed, interner, handles>>

\* unsubscribe that removes the endpoint from every group.
unsubscribe_everywhere(d, e) ==
    /\ remove_recipient(Distributors, e)
    /\ last' = Returned("unsubscribe", d, e, OkUnit)
    /\ NoteUnsubscribe(d, e)
    /\ NoteMembership(d)
    /\ UNCHANGED <<mailbox, slots, calls, closed, interner, handles>>

\* unsubscribe that reports an endpoint it did not find.
unsubscribe_checked(d, e) ==
    /\ remove_recipient({d}, e)
    /\ last' = Returned("unsubscribe", d, e,
                         IF e \in registry[d] THEN OkUnit ELSE Err("NotSubscribed"))
    /\ NoteUnsubscribe(d, e)
    /\ NoteMembership(d)
    /\ UNCHANGED <<mailbox, slots, calls, closed, interner, handles>>

\* Distributor::unsubscribe
unsubscribe(d, e) ==
    /\ remove_recipient({d}, e)
    /\ last' = Returned("unsubscribe", d, e, OkUnit)
    /\ NoteUnsubscribe(d, e)
    /\ NoteMembership(d)
    /\ UNCHANGED <<mailbox, slots, calls, closed, interner, handles>>

\* ------------------------------------------------------------------- tell
HasRoom(e) == Len(mailbox[e]) < MaxMailbox

\* GlobalDispatcher::tell: one member of the group gets the message; an empty
\* group is the error Unreachable. out is the value returned.
dispatcher_tell(d, m, out) ==
    IF registry[d] = {}
    THEN /\ out = Err(Unreachable)
         /\ mailbox' = mailbox
    ELSE /\ out = OkUnit
         /\ \E e \in registry[d] :
               /\ HasRoom(e)
               /\ mailbox' = [mailbox EXCEPT ![e] = Append(@, TellMsg(m))]

\* GlobalDispatcher::tell_everyone: every member of the group gets a clone;
\* out is the list of per-member outcomes, or Unreachable for an empty group.
\* A member whose mailbox is closed gets none, and the others still get theirs.
dispatcher_tell_everyone(d, m, out) ==
    IF registry[d] = {}
    THEN /\ out = Err(Unreachable)
         /\ mailbox' = mailbox
    ELSE /\ \A e \in registry[d] \ closed : HasRoom(e)
         /\ out = OkList(Cardinality(registry[d]))
         /\ mailbox' = [e \in ChildRefs |->
                           IF e \in registry[d] \ closed
                           THEN Append(mailbox[e], TellMsg(m))
                           ELSE mailbox[e]]

TellOutcomes == {Err(Unreachable), OkUnit}
TellAllOutcomes == {Err(Unreachable)} \cup {OkList(n) : n \in 1..NumEndpoints}

\* tell_one that calls the dispatcher's tell_everyone.
tell_one_as_everyone(d, m) ==
    /\ \E out \in TellAllOutcomes :
          /\ dispatcher_tell_everyone(d, m, out)
          /\ last' = Returned("tell_one", d, 0,
                               IF out.kind = "Ok" THEN OkUnit ELSE out)
    /\ UNCHANGED <<registry, slots, calls, emptied, closed, interner, handles, broadcast>>

\* tell_one that discards the dispatcher's error.
tell_one_unwrap_or_ok(d, m) ==
    /\ \E out \in TellOutcomes :
          /\ dispatcher_tell(d, m, out)
          /\ last' = Returned("tell_one", d, 0, OkUnit)
    /\ UNCHANGED <<registry, slots, calls, emptied, closed, interner, handles, broadcast>>

\* Distributor::tell_one
tell_one(d, m) ==
    /\ \E out \in TellOutcomes :
          /\ dispatcher_tell(d, m, out)
          /\ last' = Returned("tell_one", d, 0, out)
    /\ UNCHANGED <<registry, slots, calls, emptied, closed, interner, handles, broadcast>>

\* tell_everyone that calls the dispatcher's tell.
tell_everyone_as_one(d, m) ==
    /\ \E out \in TellOutcomes :
          /\ dispatcher_tell(d, m, out)
          /\ last' = Returned("tell_everyone", d, 0,
                               IF out.kind = "Ok" THEN OkList(1) ELSE out)
    /\ UNCHANGED <<registry, slots, calls, emptied, closed, interner, handles, broadcast>>

\* tell_everyone that gives up at the first failing delivery and returns its error.
tell_everyone_first_error(d, m) ==
    /\ IF registry[d] \cap closed # {}
       THEN /\ mailbox' = mailbox
            /\ last' = Returned("tell_everyone", d, 0, Err("Closed"))
       ELSE \E out \in TellAllOutcomes :
               /\ dispatcher_tell_everyone(d, m, out)
               /\ last' = Returned("tell_everyone", d, 0, out)
    /\ UNCHANGED <<registry, slots, calls, emptied, closed, interner, handles, broadcast>>

\* Distributor::tell_everyone
tell_everyone(d, m) ==
    /\ \E out \in TellAllOutcomes :
          /\ dispatcher_tell_everyone(d, m, out)
          /\ last' = Returned("tell_everyone", d, 0, out)
    /\ UNCHANGED <<registry, slots, calls, emptied, closed, interner, handles, broadcast>>

\* -------------------------------------------------------------------- ask
IsFree(s) == slots[s].state = "free"
FreeSlots == {s \in Slots : IsFree(s)}
\* The k lowest free reply channels, lowest first.
RECURSIVE Lowest(_, _)
Lowest(S, k) ==
    IF k = 0 \/ S = {} THEN <<>>
    ELSE LET s == CHOOSE x \in S : \A y \in S : x <= y
         IN <<s>> \o Lowest(S \ {s}, k - 1)
\* The orders in which a group can be iterated.
Orders(S) ==
    {f \in [1..Cardinality(S) -> S] : \A i, j \in 1..Cardinality(S) : f[i] = f[j] => i = j}

Pending(e) == [state |-> "pending", to |-> e, by |-> 0, reply |-> NoReply, lost |-> FALSE]
\* Ok(Answer): the receiving end of reply channel s.
Answer(s) == [kind |-> "Ok", val |-> 0, err |-> "none", slot |-> s]
\* Ok(Vec<Answer>): the receiving ends, in the order the group was iterated.
Answers(ss) == [kind |-> "Ok", val |-> 0, err |-> "none", slots |-> ss]

\* GlobalDispatcher::ask: one member of the group gets the question with the
\* sending end of a new reply channel; an empty group is the error Unreachable.
dispatcher_ask(d, q, out) ==
    IF registry[d] = {}
    THEN /\ out = Err(Unreachable)
         /\ UNCHANGED <<mailbox, slots>>
    ELSE /\ FreeSlots # {}
         /\ LET s == Lowest(FreeSlots, 1)[1]
            IN /\ out = Answer(s)
               /\ \E e \in registry[d] :
                     /\ HasRoom(e)
                     /\ mailbox' = [mailbox EXCEPT ![e] = Append(@, AskMsg(q, s))]
                     /\ slots' = [slots EXCEPT ![s] = Pending(e)]

\* GlobalDispatcher::ask_everyone: every member of the group gets a clone of the
\* question with the sending end of a reply channel of its own.
dispatcher_ask_everyone(d, q, out) ==
    IF registry[d] = {}
    THEN /\ out = Err(Unreachable)
         /\ UNCHANGED <<mailbox, slots>>
    ELSE LET n == Cardinality(registry[d])
             ss == Lowest(FreeSlots, n)
         IN /\ Cardinality(FreeSlots) >= n
            /\ \A e \in registry[d] : HasRoom(e)
            /\ out = Answers(ss)
            /\ \E order \in Orders(registry[d]) :
                  /\ mailbox' = [e \in ChildRefs |->
                        IF e \in registry[d]
                        THEN LET i == CHOOSE j \in 1..n : order[j] = e
                             IN Append(mailbox[e], AskMsg(q, ss[i]))
                        ELSE mailbox[e]]
                  /\ slots' = [s \in Slots |->
                        IF \E j \in 1..n : ss[j] = s
                        THEN LET i == CHOOSE j \in 1..n : ss[j] = s
                             IN Pending(order[i])
                        ELSE slots[s]]

AskOutcomes == {Err(Unreachable)} \cup {Answer(s) : s \in Slots}
RECURSIVE SeqsOf(_, _)
SeqsOf(S, n) ==
    IF n = 0 THEN {<<>>}
    ELSE {Append(ss, s) : ss \in SeqsOf(S, n - 1), s \in S}
AskAllOutcomes ==
    {Err(Unreachable)} \cup
    {Answers(ss) : ss \in UNION {SeqsOf(Slots, n) : n \in 1..NumEndpoints}}

\* ask_one that takes the member it asked out of the group.
ask_one_takes(d, q) ==
    /\ \E out \in AskOutcomes :
          /\ dispatcher_ask(d, q, out)
          /\ last' = Returned("ask_one", d, 0, out)
          /\ registry' = [registry EXCEPT ![d] =
                             {e \in @ : mailbox'[e] = mailbox[e]}]
    /\ UNCHANGED <<calls, emptied, closed, interner, handles, broadcast>>

\* Distributor::ask_one
ask_one(d, q) ==
    /\ \E out \in AskOutcomes :
          /\ dispatcher_ask(d, q, out)
          /\ last' = Returned("ask_one", d, 0, out)
    /\ UNCHANGED <<registry, calls, emptied, closed, interner, handles, broadcast>>

\* ask_everyone that calls the dispatcher's ask.
ask_everyone_as_one(d, q) ==
    /\ \E out \in AskOutcomes :
          /\ dispatcher_ask(d, q, out)
          /\ last' = Returned("ask_everyone", d, 0,
                               IF out.kind = "Ok" THEN Answers(<<out.slot>>) ELSE out)
    /\ UNCHANGED <<registry, calls, emptied, closed, interner, handles, broadcast>>

\* Distributor::ask_everyone
ask_everyone(d, q) ==
    /\ \E out \in AskAllOutcomes :
          /\ dispatcher_ask_everyone(d, q, out)
          /\ last' = Returned("ask_everyone", d, 0, out)
    /\ UNCHANGED <<registry, calls, emptied, closed, interner, handles, broadcast>>

\* -------------------------------------------------- broadcast, step by step
\* The registry's snapshot(name): the group as it is at the call; a name nothing
\* is subscribed to is the empty set.
snapshot(d) == registry[d]

\* The dispatcher starts a broadcast on d: it takes the snapshot of the group.
\* An empty snapshot is the error Unreachable, returned at once.
BeginBroadcast(kind, d, m) ==
    /\ broadcast.phase = "idle"
    /\ IF snapshot(d) = {}
       THEN /\ last' = Returned(kind, d, 0, Err(Unreachable))
            /\ broadcast' = broadcast
       ELSE /\ last' = last
            /\ broadcast' = [phase |-> "sending", kind |-> kind, name |-> d, body |-> m,
                             snap |-> snapshot(d), todo |-> snapshot(d),
                             answers |-> <<>>, seen |-> {registry[d]}]
    /\ UNCHANGED <<registry, mailbox, slots, calls, emptied, closed, interner, handles>>

\* Distributor::tell_everyone, up to the dispatcher's snapshot of the group.
TellEveryoneSnapshot(d, m) == BeginBroadcast("tell_everyone", d, m)

\* Distributor::ask_everyone, up to the dispatcher's snapshot of the group.
AskEveryoneSnapshot(d, q) == BeginBroadcast("ask_everyone", d, q)

\* What the broadcast returns when its last member is served.
BroadcastResult(answers) ==
    [op |-> broadcast.kind, name |-> broadcast.name, arg |-> 0, pre |-> broadcast.snap,
     res |-> IF broadcast.kind = "tell_everyone"
             THEN OkList(Cardinality(broadcast.snap))
             ELSE Answers(answers)]

\* A broadcast that iterates the group as it is now, not a snapshot: it serves a
\* current member that has nothing yet, and returns when it finds none.
BroadcastDeliverLive(e) ==
    /\ broadcast.phase = "sending"
    /\ LET waiting == {x \in registry[broadcast.name] : mailbox[x] = <<>>}
       IN IF waiting = {}
          THEN /\ broadcast' = [broadcast EXCEPT !.phase = "done"]
               /\ last' = BroadcastResult(broadcast.answers)
               /\ UNCHANGED <<mailbox, slots>>
          ELSE /\ e \in waiting
               /\ IF broadcast.kind = "tell_everyone"
                  THEN /\ mailbox' = [mailbox EXCEPT ![e] = Append(@, TellMsg(broadcast.body))]
                       /\ slots' = slots
                       /\ broadcast' = broadcast
                  ELSE /\ FreeSlots # {}
                       /\ LET s == Lowest(FreeSlots, 1)[1]
                          IN /\ mailbox' = [mailbox EXCEPT ![e] =
                                               Append(@, AskMsg(broadcast.body, s))]
                             /\ slots' = [slots EXCEPT ![s] = Pending(e)]
                             /\ broadcast' = [broadcast EXCEPT !.answers = Append(@, s)]
               /\ last' = last
    /\ UNCHANGED <<registry, calls, emptied, closed, interner, handles>>

\* The dispatcher serves the next member of the snapshot: a clone of the message,
\* and for ask_everyone the sending end of a reply channel of its own. With the
\* last member served the broadcast returns.
BroadcastDeliver(e) ==
    /\ broadcast.phase = "sending"
    /\ e \in broadcast.todo
    /\ HasRoom(e)
    /\ LET todo == broadcast.todo \ {e}
           phase == IF todo = {} THEN "done" ELSE "sending"
       IN IF broadcast.kind = "tell_everyone"
          THEN /\ mailbox' = [mailbox EXCEPT ![e] = Append(@, TellMsg(broadcast.body))]
               /\ slots' = slots
               /\ broadcast' = [broadcast EXCEPT !.todo = todo, !.phase = phase]
               /\ last' = IF todo = {} THEN BroadcastResult(<<>>) ELSE last
          ELSE /\ FreeSlots # {}
               /\ LET s == Lowest(FreeSlots, 1)[1]
                      answers == Append(broadcast.answers, s)
                  IN /\ mailbox' = [mailbox EXCEPT ![e] =
                                       Append(@, AskMsg(broadcast.body, s))]
                     /\ slots' = [slots EXCEPT ![s] = Pending(e)]
                     /\ broadcast' = [broadcast EXCEPT !.todo = todo, !.phase = phase,
                                                       !.answers = answers]
                     /\ last' = IF todo = {} THEN BroadcastResult(answers) ELSE last
    /\ UNCHANGED <<registry, calls, emptied, closed, interner, handles>>

\* -------------------------------------------------------------- responder
\* A child stops: its mailbox is closed, and it stays subscribed.
Stop(e) ==
    /\ e \notin closed
    /\ closed' = closed \cup {e}
    /\ UNCHANGED <<registry, mailbox, slots, calls, last, emptied, interner, handles, broadcast>>

\* A child takes the message at the head of its mailbox. A tell is consumed.
HandleTell(e) ==
    /\ mailbox[e] # <<>>
    /\ Head(mailbox[e]).kind = "tell"
    /\ mailbox' = [mailbox EXCEPT ![e] = Tail(@)]
    /\ UNCHANGED <<registry, slots, calls, last, emptied, closed, interner, handles, broadcast>>

\* The task that awaited reply channel s has ended, and dropped the receiving end.
ReceiverGone(s) == \E c \in DOMAIN calls : calls[c].slot = s /\ calls[c].pc = "Delivered"

\* The child answers the question at the head of its mailbox: sender.reply(r).
Reply(e, r) ==
    /\ mailbox[e] # <<>>
    /\ Head(mailbox[e]).kind = "ask"
    /\ LET s == Head(mailbox[e]).slot
       IN slots' = [slots EXCEPT ![s] = [@ EXCEPT !.state = "replied", !.by = e,
                                                   !.reply = r,
                                                   !.lost = ReceiverGone(s)]]
    /\ mailbox' = [mailbox EXCEPT ![e] = Tail(@)]
    /\ UNCHANGED <<registry, calls, last, emptied, closed, interner, handles, broadcast>>

\* The questions of concurrent callers, and what a child answers to each.
Questions == {"q1", "q2"}
AnswerTo(q) == [type |-> "u8", val |-> IF q = "q1" THEN 42 ELSE 7]

\* The child answers the question at the head of its mailbox by what was asked.
ReplyToQuestion(e) ==
    /\ mailbox[e] # <<>>
    /\ Head(mailbox[e]).kind = "ask"
    /\ Reply(e, AnswerTo(Head(mailbox[e]).body))

\* The child drops the question, and with it the sending end of the reply channel.
DropAnswer(e) ==
    /\ mailbox[e] # <<>>
    /\ Head(mailbox[e]).kind = "ask"
    /\ LET s == Head(mailbox[e]).slot
       IN slots' = [slots EXCEPT ![s] = [@ EXCEPT !.state = "dropped", !.by = e]]
    /\ mailbox' = [mailbox EXCEPT ![e] = Tail(@)]
    /\ UNCHANGED <<registry, calls, last, emptied, closed, interner, handles, broadcast>>

\* ---------------------------------------------------------------- request
\* A handler that takes the reply whatever its type.
InterpretAny(reply, R) == Ok(reply.val)

\* MessageHandler::new(message).on_tell(|reply: R, _| Ok(reply)).on_fallback(..):
\* a reply of type R is Ok of its value, any other reply is the wrong-type error.
Interpret(reply, R) ==
    IF reply.type = R THEN Ok(reply.val) ELSE Err(TypeMismatch)

\* sender.send(x).unwrap(): a task that panics when the receiver was dropped.
SendUnwrap(c, x, via) ==
    calls' = [calls EXCEPT ![c] =
                 IF calls[c].rx = "open"
                 THEN [calls[c] EXCEPT !.pc = "Delivered", !.via = via,
                                       !.result = x, !.sent = @ + 1]
                 ELSE [calls[c] EXCEPT !.pc = "Panicked"]]

\* let _ = sender.send(x): the receiver holds x unless it was dropped, the task ends.
Send(c, x, via) ==
    calls' = [calls EXCEPT ![c] =
                 [calls[c] EXCEPT !.pc = "Delivered", !.via = via,
                                  !.result = IF calls[c].rx = "open" THEN x ELSE @,
                                  !.sent = IF calls[c].rx = "open" THEN @ + 1 ELSE @]]

FreeCalls == {c \in DOMAIN calls : calls[c].variant = "none"}
\* let (sender, receiver) = channel(); spawn!(task); receiver
Spawn(variant, d, q, R) ==
    /\ FreeCalls # {}
    /\ LET c == CHOOSE x \in FreeCalls : \A y \in FreeCalls : x <= y
       IN calls' = [calls EXCEPT ![c] =
                       [NoCall EXCEPT !.variant = variant, !.name = d, !.q = q,
                                      !.R = R, !.pc = "Created"]]
    /\ UNCHANGED <<registry, mailbox, slots, last, emptied, closed, interner, handles, broadcast>>

\* The caller drops the receiver it got before the task has sent the Result.
DropReceiver(c) ==
    /\ calls[c].pc \in {"Created", "AskSent"}
    /\ calls[c].rx = "open"
    /\ calls' = [calls EXCEPT ![c] = [calls[c] EXCEPT !.rx = "dropped"]]
    /\ UNCHANGED <<registry, mailbox, slots, last, emptied, closed, interner, handles, broadcast>>

\* Distributor::request
request(d, q, R) == Spawn("request", d, q, R)
\* Distributor::request_sync
request_sync(d, q, R) == Spawn("request_sync", d, q, R)
\* Distributor::request_timeout
request_timeout(d, q, R) == Spawn("request_timeout", d, q, R)

\* A task that drops the error of the ask instead of sending it on.
TaskAskDropsError(c) ==
    /\ calls[c].pc = "Created"
    /\ \E out \in AskOutcomes :
          /\ dispatcher_ask(calls[c].name, calls[c].q, out)
          /\ IF out.kind = "Err"
             THEN calls' = [calls EXCEPT ![c] =
                               [calls[c] EXCEPT !.pc = "Delivered", !.via = "AskFailed"]]
             ELSE calls' = [calls EXCEPT ![c] =
                               [calls[c] EXCEPT !.pc = "AskSent", !.slot = out.slot]]
    /\ UNCHANGED <<registry, last, emptied, closed, interner, handles, broadcast>>

\* A task that asks every member of the group and awaits the first reply channel.
TaskAskEveryone(c) ==
    /\ calls[c].pc = "Created"
    /\ \E out \in AskAllOutcomes :
          /\ dispatcher_ask_everyone(calls[c].name, calls[c].q, out)
          /\ IF out.kind = "Err"
             THEN Send(c, out, "AskFailed")
             ELSE calls' = [calls EXCEPT ![c] =
                               [calls[c] EXCEPT !.pc = "AskSent", !.slot = out.slots[1]]]
    /\ UNCHANGED <<registry, last, emptied, closed, interner, handles, broadcast>>

\* A task that awaits the first reply channel, whichever the ask created.
TaskAskSharedSlot(c) ==
    /\ calls[c].pc = "Created"
    /\ \E out \in AskOutcomes :
          /\ dispatcher_ask(calls[c].name, calls[c].q, out)
          /\ IF out.kind = "Err"
             THEN Send(c, out, "AskFailed")
             ELSE calls' = [calls EXCEPT ![c] =
                               [calls[c] EXCEPT !.pc = "AskSent", !.slot = 1]]
    /\ UNCHANGED <<registry, last, emptied, closed, interner, handles, broadcast>>

\* The task up to its first await: match SYSTEM.dispatcher().ask(s, question).
\* Err(error) is sent on at once; Ok(response) leaves the task awaiting it.
TaskAsk(c) ==
    /\ calls[c].pc = "Created"
    /\ \E out \in AskOutcomes :
          /\ dispatcher_ask(calls[c].name, calls[c].q, out)
          /\ IF out.kind = "Err"
             THEN Send(c, out, "AskFailed")
             ELSE calls' = [calls EXCEPT ![c] =
                               [calls[c] EXCEPT !.pc = "AskSent", !.slot = out.slot]]
    /\ UNCHANGED <<registry, last, emptied, closed, interner, handles, broadcast>>

Resolved(s) == slots[s].state \in {"replied", "dropped"}

\* A task that hands whatever the await gave to the message handler.
ResponseResultAsFallback(c) ==
    Interpret(slots[calls[c].slot].reply, calls[c].R)

\* A request_sync task that takes a dropped reply channel for an empty reply.
ResponseResultSyncUnwraps(c) ==
    IF slots[calls[c].slot].state = "replied"
    THEN Interpret(slots[calls[c].slot].reply, calls[c].R)
    ELSE IF calls[c].variant = "request_sync"
         THEN Ok(0)
         ELSE Err(ReplyFailedDebug)

\* response.await has completed: Ok(message) is interpreted as R, Err(e) (the
\* sending end was dropped) is the error "couldn't receive reply".
ResponseResult(c) ==
    IF slots[calls[c].slot].state = "replied"
    THEN Interpret(slots[calls[c].slot].reply, calls[c].R)
    ELSE IF calls[c].variant = "request_sync"
         THEN Err(ReplyFailed)
         ELSE Err(ReplyFailedDebug)

\* The task with no branch for a dropped reply channel.
TaskResponseOkOnly(c) ==
    /\ calls[c].pc = "AskSent"
    /\ slots[calls[c].slot].state = "replied"
    /\ Send(c, ResponseResult(c), "Replied")
    /\ UNCHANGED <<registry, mailbox, slots, last, emptied, closed, interner, handles, broadcast>>

\* A reply branch that the Delay branch does not cancel.
TaskResponseLate(c) ==
    /\ calls[c].pc \in {"AskSent", "Delivered"}
    /\ calls[c].via \notin {"Replied", "AskFailed"}
    /\ Resolved(calls[c].slot)
    /\ Send(c, ResponseResult(c), "Replied")
    /\ UNCHANGED <<registry, mailbox, slots, last, emptied, closed, interner, handles, broadcast>>

\* The select! (or the await) takes the reply branch: the outcome of the reply is sent.
TaskResponse(c) ==
    /\ calls[c].pc = "AskSent"
    /\ Resolved(calls[c].slot)
    /\ Send(c, ResponseResult(c), "Replied")
    /\ UNCHANGED <<registry, mailbox, slots, last, emptied, closed, interner, handles, broadcast>>

\* Delay::new(timeout) reaches its deadline while the task is in the select!.
TimerFires(c) ==
    /\ calls[c].variant = "request_timeout"
    /\ calls[c].pc = "AskSent"
    /\ ~calls[c].elapsed
    /\ calls' = [calls EXCEPT ![c] =
                    [calls[c] EXCEPT !.elapsed = TRUE,
                                     !.timerFirst = ~Resolved(calls[c].slot)]]
    /\ UNCHANGED <<registry, mailbox, slots, last, emptied, closed, interner, handles, broadcast>>

\* A Delay branch that the reply branch does not cancel.
TaskTimeoutLate(c) ==
    /\ calls[c].variant = "request_timeout"
    /\ calls[c].pc \in {"AskSent", "Delivered"}
    /\ calls[c].via # "TimedOut"
    /\ calls[c].elapsed
    /\ Send(c, Err(Timeout), "TimedOut")
    /\ UNCHANGED <<registry, mailbox, slots, last, emptied, closed, interner, handles, broadcast>>

\* A Delay branch that does not wait for the deadline.
TaskTimeoutNoDelay(c) ==
    /\ calls[c].variant = "request_timeout"
    /\ calls[c].pc = "AskSent"
    /\ Send(c, Err(Timeout), "TimedOut")
    /\ UNCHANGED <<registry, mailbox, slots, last, emptied, closed, interner, handles, broadcast>>

\* A Delay branch in every request function, ready at once.
TaskTimeoutAnyVariant(c) ==
    /\ calls[c].pc = "AskSent"
    /\ Send(c, Err(Timeout), "TimedOut")
    /\ UNCHANGED <<registry, mailbox, slots, last, emptied, closed, interner, handles, broadcast>>

\* The select! takes the Delay branch: the timeout error is sent.
TaskTimeout(c) ==
    /\ calls[c].variant = "request_timeout"
    /\ calls[c].pc = "AskSent"
    /\ calls[c].elapsed
    /\ Send(c, Err(Timeout), "TimedOut")
    /\ UNCHANGED <<registry, mailbox, slots, last, emptied, closed, interner, handles, broadcast>>

NextRegistry ==
    \/ \E d \in Distributors, e \in ChildRefs : subscribe(d, e)
    \/ \E d \in Distributors, e \in ChildRefs : unsubscribe(d, e)

NextTell ==
    \/ \E d \in Distributors, m \in Messages : tell_one(d, m)
    \/ \E d \in Distributors, m \in Messages : tell_everyone(d, m)
    \/ \E e \in ChildRefs : HandleTell(e)

NextAsk ==
    \/ \E d \in Distributors, q \in Messages : ask_one(d, q)
    \/ \E d \in Distributors, q \in Messages : ask_everyone(d, q)
    \/ \E e \in ChildRefs, r \in Replies : Reply(e, r)
    \/ \E e \in ChildRefs : DropAnswer(e)

NextRequest ==
    \/ \E d \in Distributors, q \in Messages, R \in Types : request(d, q, R)
    \/ \E d \in Distributors, q \in Messages, R \in Types : request_sync(d, q, R)
    \/ \E d \in Distributors, q \in Messages, R \in Types : request_timeout(d, q, R)
    \/ \E c \in Calls : TaskAsk(c)
    \/ \E c \in Calls : TaskResponse(c)
    \/ \E c \in Calls : TimerFires(c)
    \/ \E c \in Calls : TaskTimeout(c)
    \/ \E e \in ChildRefs, r \in Replies : Reply(e, r)
    \/ \E e \in ChildRefs : DropAnswer(e)

NextClosed ==
    \/ \E d \in Distributors, e \in ChildRefs : unsubscribe(d, e)
    \/ \E d \in Distributors, m \in Messages : tell_everyone(d, m)
    \/ \E e \in ChildRefs : Stop(e)

NextNamed ==
    \/ \E n \in Names : named(n)
    \/ NextRegistry

NextOne ==
    \/ \E d \in Distributors, m \in Messages : tell_one(d, m)
    \/ \E d \in Distributors, q \in Messages : ask_one(d, q)
    \/ \E e \in ChildRefs : HandleTell(e)
    \/ \E e \in ChildRefs : DropAnswer(e)

\* Two callers.
PairCalls == {1, 2}

NextPair ==
    \/ \E d \in Distributors, q \in Questions : request(d, q, "u8")
    \/ \E c \in PairCalls : TaskAsk(c)
    \/ \E c \in PairCalls : TaskResponse(c)
    \/ \E e \in ChildRefs : ReplyToQuestion(e)

NextDropped ==
    \/ \E d \in Distributors : request(d, "q1", "u8")
    \/ \E d \in Distributors : request_sync(d, "q1", "u8")
    \/ \E d \in Distributors : request_timeout(d, "q1", "u8")
    \/ \E c \in PairCalls : DropReceiver(c)
    \/ \E c \in PairCalls : TaskAsk(c)
    \/ \E c \in PairCalls : TaskResponse(c)
    \/ \E c \in PairCalls : TimerFires(c)
    \/ \E c \in PairCalls : TaskTimeout(c)
    \/ \E e \in ChildRefs : ReplyToQuestion(e)
    \/ \E e \in ChildRefs : DropAnswer(e)

\* Nothing was sent yet: no message waits in a mailbox, no reply channel was
\* created, no request task was spawned.
Quiet ==
    /\ \A e \in ChildRefs : mailbox[e] = <<>>
    /\ FreeSlots = Slots
    /\ FreeCalls = DOMAIN calls

\* Subscriptions and unsubscriptions at any time, around one sending operation
\* that is followed to its end: failed sends leave the system quiet, and the
\* first send that delivers, or the first request, is the one followed.
NextFrame ==
    \/ NextRegistry
    \/ \E d \in Distributors, m \in Messages : Quiet /\ tell_one(d, m)
    \/ \E d \in Distributors, m \in Messages : Quiet /\ tell_everyone(d, m)
    \/ \E d \in Distributors, q \in Messages : Quiet /\ ask_one(d, q)
    \/ \E d \in Distributors, q \in Messages : Quiet /\ ask_everyone(d, q)
    \/ \E d \in Distributors : Quiet /\ request(d, "hello", "u8")
    \/ \E d \in Distributors : Quiet /\ request_sync(d, "hello", "u8")
    \/ \E d \in Distributors : Quiet /\ request_timeout(d, "hello", "u8")
    \/ \E c \in Calls : TaskAsk(c)
    \/ \E c \in Calls : TaskResponse(c)
    \/ \E c \in Calls : TimerFires(c)
    \/ \E c \in Calls : TaskTimeout(c)
    \/ \E e \in ChildRefs : HandleTell(e)
    \/ \E e \in ChildRefs : ReplyToQuestion(e)
    \/ \E e \in ChildRefs : DropAnswer(e)

\* One broadcast delivered member by member, with other actors subscribing to
\* its group and unsubscribing from it while it is delivered.
NextSnapshot ==
    \/ \E d \in Distributors, m \in Messages : Quiet /\ TellEveryoneSnapshot(d, m)
    \/ \E d \in Distributors, q \in Messages : Quiet /\ AskEveryoneSnapshot(d, q)
    \/ \E e \in ChildRefs : BroadcastDeliver(e)
    \/ \E e \in ChildRefs :
          broadcast.phase = "sending" /\ subscribe(broadcast.name, e)
    \/ \E e \in ChildRefs :
          broadcast.phase = "sending" /\ unsubscribe(broadcast.name, e)

Next == NextRegistry \/ NextTell

\* Subscribing, unsubscribing and telling, with the children taking what they get.
Spec == Init /\ [][Next]_vars

\* Naming Distributors in any order, any number of times, between subscriptions.
SpecNamed == Init /\ [][NextNamed]_vars

\* The sending operations between subscriptions.
SpecFrame == Init /\ [][NextFrame]_vars

\* The groups as the children were started with them (Children::with_distributor
\* registers a child before any message is sent): "G" has the first k children
\* for any k (the children are interchangeable), nothing was ever subscribed
\* to "H".
InitStarted ==
    /\ registry \in {[d \in Distributors |-> IF d = "G" THEN 1..k ELSE {}] :
                        k \in 0..NumEndpoints}
    /\ mailbox = [e \in ChildRefs |-> <<>>]
    /\ slots = [s \in Slots |-> FreeSlot]
    /\ calls = [c \in Calls |-> NoCall]
    /\ last = NoOp
    /\ emptied = {}
    /\ closed = {}
    /\ interner = <<>>
    /\ handles = {}
    /\ broadcast = NoBroadcast

\* A broadcast to the started groups while the groups change.
SpecSnapshot == InitStarted /\ [][NextSnapshot]_vars

\* Telling everyone in the started groups while children stop or are
\* unsubscribed; no mailbox is drained.
SpecClosed == InitStarted /\ [][NextClosed]_vars

\* Telling and asking one member of the started groups.
SpecOne == InitStarted /\ [][NextOne]_vars

\* Two groups that share the last child: "G" has the first k children, "H" the
\* last one; two request tasks can be alive at once.
InitPair ==
    /\ registry \in {[d \in Distributors |-> IF d = "G" THEN 1..k ELSE {NumEndpoints}] :
                        k \in 1..NumEndpoints}
    /\ mailbox = [e \in ChildRefs |-> <<>>]
    /\ slots = [s \in Slots |-> FreeSlot]
    /\ calls = [c \in PairCalls |-> NoCall]
    /\ last = NoOp
    /\ emptied = {}
    /\ closed = {}
    /\ interner = <<>>
    /\ handles = {}
    /\ broadcast = NoBroadcast

\* Two concurrent request calls, with the children answering each question.
SpecPair == InitPair /\ [][NextPair]_vars

\* The started groups with two request tasks that can be alive at once.
InitStartedPair ==
    /\ registry \in {[d \in Distributors |-> IF d = "G" THEN 1..k ELSE {}] :
                        k \in 0..NumEndpoints}
    /\ mailbox = [e \in ChildRefs |-> <<>>]
    /\ slots = [s \in Slots |-> FreeSlot]
    /\ calls = [c \in PairCalls |-> NoCall]
    /\ last = NoOp
    /\ emptied = {}
    /\ closed = {}
    /\ interner = <<>>
    /\ handles = {}
    /\ broadcast = NoBroadcast

\* The request family with callers that drop their receiver; the executor runs
\* every task that can run and a Delay elapses, a child need not answer.
SpecDropped ==
    /\ InitStartedPair
    /\ [][NextDropped]_vars
    /\ \A c \in PairCalls :
          /\ WF_vars(TaskAsk(c))
          /\ WF_vars(TaskResponse(c) \/ TaskTimeout(c))
          /\ WF_vars(TimerFires(c))

\* Asking the started groups, with the children answering or not.
SpecAsk == InitStarted /\ [][NextAsk]_vars

\* The request family over the started groups.

SpecRequest == InitStarted /\ [][NextRequest]_vars

\* The executor runs every spawned task that can run, and a Delay elapses; a
\* child is not obliged to answer.
Fairness ==
    \A c \in Calls :
        /\ WF_vars(TaskAsk(c))
        /\ WF_vars(TaskResponse(c) \/ TaskTimeout(c))
        /\ WF_vars(TimerFires(c))

SpecRequestFair == SpecRequest /\ Fairness
\* ------------------------------------------------------------------ claims
\* C4: tell_one on a group with no subscriber (a name nothing was ever subscribed
\* to included) returns the Unreachable error as a value, puts the message in no
\* mailbox and leaves the registry as it was.
C4_TellOneEmptyGroup ==
    [][\A d \in Distributors, m \in Messages :
          (registry[d] = {} /\ tell_one(d, m)) =>
              /\ last'.res = Err(Unreachable)
              /\ mailbox' = mailbox
              /\ registry' = registry]_vars

C4_Witness ==
    /\ last.op = "tell_one"
    /\ last.pre = {}
    /\ last.res = Err(Unreachable)
    /\ \A e \in ChildRefs : mailbox[e] = <<>>

\* The state right after subscribe(e) on Distributor d whose group was empty.
AfterFirstSubscribe(d, e) ==
    /\ last.op = "subscribe"
    /\ last.name = d
    /\ last.arg = e
    /\ last.pre = {}

\* C5: after subscribe(e) on a name whose group was empty, tell_one on that name
\* returns Ok and e's mailbox gets exactly one copy of the message, no other
\* mailbox any.
C5_SubscribeThenTellOne ==
    [][\A d \in Distributors, e \in ChildRefs, m \in Messages :
          (AfterFirstSubscribe(d, e) /\ tell_one(d, m)) =>
              /\ last'.res = OkUnit
              /\ mailbox'[e] = Append(mailbox[e], TellMsg(m))
              /\ \A f \in ChildRefs \ {e} : mailbox'[f] = mailbox[f]]_vars

C5_Witness ==
    /\ last.op = "tell_one"
    /\ last.res = OkUnit
    /\ \E e \in ChildRefs :
          /\ last.pre = {e}
          /\ mailbox[e] = <<TellMsg("hello")>>
          /\ \A f \in ChildRefs \ {e} : mailbox[f] = <<>>

\* C6: once the last remaining subscriber of a name has been unsubscribed, every
\* tell_one on that name returns Unreachable and delivers nothing, until an
\* endpoint is subscribed to the name again.
C6_UnsubscribeLastThenUnreachable ==
    [][\A d \in Distributors, m \in Messages :
          (d \in emptied /\ tell_one(d, m)) =>
              /\ last'.res = Err(Unreachable)
              /\ mailbox' = mailbox]_vars

C6_Witness ==
    /\ last.op = "tell_one"
    /\ last.name \in emptied
    /\ last.res = Err(Unreachable)

\* C7: tell_everyone on a group of N >= 1 subscribers returns Ok of a list of
\* exactly N elements, every subscriber's mailbox gets exactly one copy of the
\* message and no mailbox outside the group gets one.
C7_TellEveryoneOneCopyEach ==
    [][\A d \in Distributors, m \in Messages :
          (registry[d] # {} /\ tell_everyone(d, m)) =>
              /\ last'.res = OkList(Cardinality(registry[d]))
              /\ \A e \in ChildRefs :
                    mailbox'[e] = IF e \in registry[d]
                                  THEN Append(mailbox[e], TellMsg(m))
                                  ELSE mailbox[e]]_vars

C7_Witness ==
    /\ last.op = "tell_everyone"
    /\ Cardinality(last.pre) = NumEndpoints
    /\ last.res = OkList(NumEndpoints)
    /\ \A e \in ChildRefs : mailbox[e] = <<TellMsg("hello")>>

\* The reply channels an operation created: free before it, not free after.
Created(s) == slots[s].state = "free" /\ slots'[s].state # "free"

\* C8: ask_everyone on a group of N >= 1 subscribers returns exactly N reply
\* handles over N newly created reply channels, and every subscriber's mailbox
\* gets exactly one copy of the question with a channel of its own; no channel
\* goes to two subscribers, and no other mailbox or channel is touched.
C8_AskEveryoneOneSlotEach ==
    [][\A d \in Distributors, q \in Messages :
          (registry[d] # {} /\ ask_everyone(d, q)) =>
              /\ last'.res.kind = "Ok"
              /\ LET ss == last'.res.slots
                     n == Cardinality(registry[d])
                 IN /\ Len(ss) = n
                    /\ \A i, j \in 1..Len(ss) : ss[i] = ss[j] => i = j
                    /\ {s \in Slots : Created(s)} = {ss[i] : i \in 1..Len(ss)}
                    /\ \A s \in Slots : ~Created(s) => slots'[s] = slots[s]
                    /\ \A e \in registry[d] :
                          \E i \in 1..Len(ss) :
                              /\ mailbox'[e] = Append(mailbox[e], AskMsg(q, ss[i]))
                              /\ slots'[ss[i]] = Pending(e)
                    /\ \A e \in ChildRefs \ registry[d] : mailbox'[e] = mailbox[e]]_vars

C8_Witness ==
    /\ last.op = "ask_everyone"
    /\ Cardinality(last.pre) = NumEndpoints
    /\ last.res.kind = "Ok"
    /\ Len(last.res.slots) = NumEndpoints
    /\ \A e \in ChildRefs :
          /\ Len(mailbox[e]) = 1
          /\ slots[mailbox[e][1].slot] = Pending(e)

RECURSIVE SumSeq(_)
SumSeq(xs) == IF xs = <<>> THEN 0 ELSE Head(xs) + SumSeq(Tail(xs))
\* What the handles of the latest ask_everyone have resolved to, in their order.
Collected(ss) == [i \in 1..Len(ss) |-> slots[ss[i]].reply.val]
AllReplied(ss, v) ==
    \A i \in 1..Len(ss) :
        slots[ss[i]].state = "replied" /\ slots[ss[i]].reply.val = v

\* C9: the handles ask_everyone returned are independent: each is paired with
\* one subscriber of the group, a different one each, and resolves with what
\* that subscriber replied, whatever the order of the replies; when every
\* subscriber has replied v, the N collected replies are N copies of v and sum
\* to N * v.
C9_AnswersIndependent ==
    (last.op = "ask_everyone" /\ last.res.kind = "Ok") =>
        LET ss == last.res.slots
            n == Cardinality(last.pre)
        IN /\ Len(ss) = n
           /\ {slots[ss[i]].to : i \in 1..Len(ss)} = last.pre
           /\ \A i \in 1..Len(ss) :
                 slots[ss[i]].state \in {"replied", "dropped"} =>
                     slots[ss[i]].by = slots[ss[i]].to
           /\ \A i \in 1..Len(ss) :
                 slots[ss[i]].state = "pending" =>
                     \E k \in 1..Len(mailbox[slots[ss[i]].to]) :
                         mailbox[slots[ss[i]].to][k] = AskMsg("hello", ss[i])
           /\ \A v \in {r.val : r \in Replies} :
                 AllReplied(ss, v) =>
                     /\ Collected(ss) = [i \in 1..n |-> v]
                     /\ SumSeq(Collected(ss)) = n * v

C9_Witness ==
    /\ last.op = "ask_everyone"
    /\ last.res.kind = "Ok"
    /\ Len(last.res.slots) = NumEndpoints
    /\ AllReplied(last.res.slots, 42)
    /\ SumSeq(Collected(last.res.slots)) = NumEndpoints * 42

IsTimeoutCall(c) == calls[c].variant = "request_timeout"
Delivered(c) == calls[c].pc = "Delivered"
\* The errors the dispatcher's ask returns.
AskErrors == {Unreachable}
\* r is the Result of the branch that ended task c: the outcome of the reply,
\* the timeout error, or the error of the ask.
IsOutcomeOf(c, r) ==
    CASE calls[c].via = "Replied" -> Resolved(calls[c].slot) /\ r = ResponseResult(c)
      [] calls[c].via = "TimedOut" -> r = Err(Timeout)
      [] calls[c].via = "AskFailed" -> r \in {Err(e) : e \in AskErrors}
      [] OTHER -> FALSE

\* C1: whatever the order of the child's reply and the expiry of the Delay, the
\* receiver of a request_timeout call gets exactly one Result: none before the
\* task ends, then the outcome of the reply, the timeout error or the error of
\* the ask, put there once and never replaced; and the task does end.
C1_TimeoutExactlyOneResult ==
    /\ [](\A c \in Calls : IsTimeoutCall(c) =>
            IF Delivered(c)
            THEN /\ calls[c].sent = 1
                 /\ IsOutcomeOf(c, calls[c].result)
            ELSE calls[c].sent = 0 /\ calls[c].result = NoResult)
    /\ [][\A c \in Calls : (IsTimeoutCall(c) /\ Delivered(c)) =>
              calls'[c] = calls[c]]_vars
    /\ \A c \in Calls : IsTimeoutCall(c) ~> Delivered(c)

C1_Witness ==
    \E c \in Calls :
        /\ IsTimeoutCall(c)
        /\ Delivered(c)
        /\ calls[c].elapsed
        /\ slots[calls[c].slot].state = "replied"
        /\ calls[c].sent = 1

\* The Delay reached its deadline while the reply was still pending.
TimerBeforeReply(c) == calls[c].elapsed /\ calls[c].timerFirst
\* The child replied while the Delay had not reached its deadline.
ReplyBeforeTimer(c) ==
    /\ slots[calls[c].slot].state = "replied"
    /\ ~TimerBeforeReply(c)

C3_AlwaysDelivers ==
    \A c \in Calls : (calls[c].pc = "Created") ~> Delivered(c)

\* A request or request_sync task awaiting a reply channel that the child has
\* neither answered nor dropped.
WaitingOnChild(c) ==
    /\ calls[c].variant \in {"request", "request_sync"}
    /\ calls[c].pc = "AskSent"
    /\ ~Resolved(calls[c].slot)

\* C3 as amended: every request_timeout call ends with a Result delivered; a
\* request or request_sync call does once its ask has failed or the child has
\* replied to, or dropped, the reply channel. A request or request_sync call
\* whose child does neither stays waiting.
C3_DeliversOnceResolved ==
    \A c \in Calls :
        (calls[c].pc \in {"Created", "AskSent"}) ~> (Delivered(c) \/ WaitingOnChild(c))

C3_Witness ==
    \E c \in Calls :
        /\ calls[c].variant = "request_sync"
        /\ Delivered(c)
        /\ calls[c].result = Err(ReplyFailed)

\* C10: a reply whose type is not the expected type R ends a request,
\* request_sync or request_timeout call with the wrong-type error, never with
\* Ok; a reply of type R ends it with Ok of the value the child sent.
C10_ReplyTypeDecides ==
    \A c \in Calls :
        (Delivered(c) /\ calls[c].via = "Replied"
                      /\ slots[calls[c].slot].state = "replied") =>
            LET reply == slots[calls[c].slot].reply
            IN IF reply.type = calls[c].R
               THEN calls[c].result = Ok(reply.val)
               ELSE calls[c].result = Err(TypeMismatch)

C10_Witness ==
    \E c \in Calls :
        /\ calls[c].variant = "request"
        /\ Delivered(c)
        /\ calls[c].via = "Replied"
        /\ calls[c].R = "u8"
        /\ slots[calls[c].slot].reply.type = "str"
        /\ calls[c].result = Err(TypeMismatch)

\* C11: when the ask of a request, request_sync or request_timeout task fails
\* (the group is empty), the task ends in that step with that same error put
\* in the caller's receiver once: no question is sent, no reply channel is
\* created or awaited, the Delay never elapses for it, and the result is
\* neither the timeout error nor the outcome of a reply.
C11_AskFailureForwarded ==
    /\ [][\A c \in Calls :
              (calls[c].pc = "Created" /\ registry[calls[c].name] = {} /\ TaskAsk(c)) =>
                  /\ calls'[c].pc = "Delivered"
                  /\ calls'[c].via = "AskFailed"
                  /\ calls'[c].result = Err(Unreachable)
                  /\ calls'[c].sent = 1
                  /\ mailbox' = mailbox
                  /\ slots' = slots]_vars
    /\ [](\A c \in Calls :
            calls[c].via = "AskFailed" =>
                /\ Delivered(c)
                /\ calls[c].result \in {Err(e) : e \in AskErrors}
                /\ calls[c].result # Err(Timeout)
                /\ calls[c].slot = 0
                /\ ~calls[c].elapsed)

C11_Witness ==
    \E c \in Calls :
        /\ IsTimeoutCall(c)
        /\ Delivered(c)
        /\ calls[c].via = "AskFailed"
        /\ calls[c].result = Err(Unreachable)
        /\ calls[c].sent = 1
        /\ \A s \in Slots : IsFree(s)

\* r is the error "couldn't receive reply", in either of its two texts.
IsReplyFailed(r) == r \in {Err(ReplyFailed), Err(ReplyFailedDebug)}

\* The child dropped the reply channel that task c is awaiting.
AwaitingDropped(c) ==
    /\ calls[c].pc = "AskSent"
    /\ slots[calls[c].slot].state = "dropped"

TimedOut(c) == IsTimeoutCall(c) /\ Delivered(c) /\ calls[c].via = "TimedOut"

\* C13: once a request_timeout task has sent the timeout error, a reply the
\* child sends afterwards is discarded: the task has ended, and the Result in
\* the caller's receiver stays the timeout error, put there once; no step, the
\* child's reply included, changes, replaces or adds to it.
C13_LateReplyDiscarded ==
    /\ [][\A c \in Calls : TimedOut(c) => calls'[c] = calls[c]]_vars
    /\ [][\A c \in Calls, e \in ChildRefs, r \in Replies :
              (TimedOut(c) /\ slots[calls[c].slot].to = e /\ Reply(e, r)) =>
                  /\ calls' = calls
                  /\ calls'[c].result = Err(Timeout)
                  /\ calls'[c].sent = 1]_vars
    /\ [](\A c \in Calls : TimedOut(c) =>
            calls[c].result = Err(Timeout) /\ calls[c].sent = 1)

C13_Witness ==
    \E c \in Calls :
        /\ TimedOut(c)
        /\ slots[calls[c].slot].state = "replied"
        /\ slots[calls[c].slot].lost
        /\ calls[c].result = Err(Timeout)
        /\ calls[c].sent = 1

\* The kind of a delivered Result, with the value of an Ok.
KindOf(r) ==
    [kind |-> CASE r.kind = "Ok" -> "Ok"
                [] IsReplyFailed(r) -> "ReplyFailed"
                [] OTHER -> r.err,
     val |-> r.val]
\* What the registry and the responder's behaviour make of task c, whichever
\* function spawned it: the error of the ask for an empty group, ReplyFailed
\* for a dropped reply channel, Ok of the value for a reply of type R,
\* TypeMismatch for a reply of another type.
ExpectedKind(c) ==
    IF registry[calls[c].name] = {}
    THEN [kind |-> Unreachable, val |-> 0]
    ELSE IF slots[calls[c].slot].state = "dropped"
    THEN [kind |-> "ReplyFailed", val |-> 0]
    ELSE IF slots[calls[c].slot].reply.type = calls[c].R
    THEN [kind |-> "Ok", val |-> slots[calls[c].slot].reply.val]
    ELSE [kind |-> TypeMismatch, val |-> 0]

\* C14: request_sync and request have the same semantics: the kind of Result
\* a call of either delivers (Ok of the value, TypeMismatch, ReplyFailed or the
\* forwarded error of the ask) is the same function of the registry and of
\* what the responder did, delivered once, and neither ever times out or
\* delivers before the responder has acted.
C14_RequestSyncAsRequest ==
    \A c \in Calls :
        calls[c].variant \in {"request", "request_sync"} =>
            IF Delivered(c)
            THEN /\ KindOf(calls[c].result) = ExpectedKind(c)
                 /\ calls[c].sent = 1
                 /\ calls[c].via \in {"Replied", "AskFailed"}
                 /\ ~calls[c].elapsed
            ELSE calls[c].result = NoResult /\ calls[c].sent = 0

C14_Witness ==
    \E c \in Calls :
        /\ calls[c].variant = "request_sync"
        /\ Delivered(c)
        /\ calls[c].via = "Replied"
        /\ slots[calls[c].slot].state = "dropped"
        /\ calls[c].result = Err(ReplyFailed)
        /\ KindOf(calls[c].result) = KindOf(Err(ReplyFailedDebug))

\* C15: tell_everyone does not stop at a failing delivery: with the mailbox of
\* one or more subscribers closed, every other subscriber of the group still
\* gets exactly one copy, the closed ones and the endpoints outside the group
\* get none, and the call returns Ok of a list with one element per
\* subscriber; it returns an error only when the group is empty.
C15_TellEveryonePartialFailure ==
    [][\A d \in Distributors, m \in Messages :
          tell_everyone(d, m) =>
              /\ last'.res.kind = "Err" <=> registry[d] = {}
              /\ registry[d] # {} =>
                    /\ last'.res = OkList(Cardinality(registry[d]))
                    /\ \A e \in registry[d] \ closed :
                          mailbox'[e] = Append(mailbox[e], TellMsg(m))
                    /\ \A e \in ChildRefs \ (registry[d] \ closed) :
                          mailbox'[e] = mailbox[e]]_vars

C15_Witness ==
    /\ last.op = "tell_everyone"
    /\ last.pre = ChildRefs
    /\ last.res = OkList(NumEndpoints)
    /\ \E e \in ChildRefs :
          /\ closed = {e}
          /\ mailbox[e] = <<>>
          /\ \A f \in ChildRefs \ {e} : mailbox[f] = <<TellMsg("hello")>>

\* The state right after unsubscribe(e) on Distributor d.
AfterUnsubscribe(d, e) ==
    /\ last.op = "unsubscribe"
    /\ last.name = d
    /\ last.arg = e

\* C16: unsubscribe(e) on the Distributor of name d removes e from d's group
\* and changes nothing else: every other group keeps its members, e included,
\* d's group keeps its other members, and a tell_everyone through another
\* name e is subscribed to, right after, still puts its copy in e's mailbox.
C16_UnsubscribeOnlyThisName ==
    /\ [][\A d \in Distributors, e \in ChildRefs :
              unsubscribe(d, e) =>
                  /\ registry'[d] = registry[d] \ {e}
                  /\ \A n \in Distributors \ {d} : registry'[n] = registry[n]]_vars
    /\ [][\A d, n \in Distributors, e \in ChildRefs, m \in Messages :
              (AfterUnsubscribe(d, e) /\ n # d /\ e \in registry[n]
                                      /\ tell_everyone(n, m)) =>
                  /\ last'.res.kind = "Ok"
                  /\ mailbox'[e] = Append(mailbox[e], TellMsg(m))]_vars

C16_Witness ==
    /\ AfterUnsubscribe("G", 1)
    /\ last.pre = ChildRefs
    /\ registry["G"] = ChildRefs \ {1}
    /\ registry["H"] = ChildRefs
    /\ last.res = OkUnit

\* The state right after subscribe(e) on Distributor d whose group had e already.
AfterResubscribe(d, e) ==
    /\ last.op = "subscribe"
    /\ last.name = d
    /\ last.arg = e
    /\ e \in last.pre

\* C17: subscribe is idempotent: subscribing an endpoint to a name it is
\* subscribed to returns Ok and leaves every group as it was; a tell_everyone
\* right after returns a list with one element per member and puts exactly
\* one copy in the endpoint's mailbox, and one unsubscribe right after leaves
\* the endpoint out of the group.
C17_SubscribeIdempotent ==
    /\ [][\A d \in Distributors, e \in ChildRefs :
              (e \in registry[d] /\ subscribe(d, e)) =>
                  /\ last'.res = OkUnit
                  /\ registry' = registry]_vars
    /\ [][\A d \in Distributors, e \in ChildRefs, m \in Messages :
              (AfterResubscribe(d, e) /\ tell_everyone(d, m)) =>
                  /\ registry[d] = last.pre
                  /\ last'.res = OkList(Cardinality(last.pre))
                  /\ mailbox'[e] = Append(mailbox[e], TellMsg(m))]_vars
    /\ [][\A d \in Distributors, e \in ChildRefs :
              (AfterResubscribe(d, e) /\ unsubscribe(d, e)) =>
                  /\ e \notin registry'[d]
                  /\ registry'[d] = last.pre \ {e}]_vars

C17_Witness ==
    /\ AfterResubscribe("G", 1)
    /\ last.pre = ChildRefs
    /\ registry["G"] = ChildRefs
    /\ last.res = OkUnit

\* C18: unsubscribe of an endpoint that is not in the name's group, a name
\* nothing was ever subscribed to included, returns Ok and leaves every group
\* as it was.
C18_UnsubscribeAbsent ==
    [][\A d \in Distributors, e \in ChildRefs :
          (e \notin registry[d] /\ unsubscribe(d, e)) =>
              /\ last'.res = OkUnit
              /\ registry' = registry]_vars

C18_Witness ==
    /\ AfterUnsubscribe("H", 1)
    /\ last.pre = {}
    /\ last.res = OkUnit
    /\ registry["H"] = {}
    /\ 1 \in registry["G"]

\* The group a Distributor value addresses: the dispatcher's entry for its Spur.
GroupOf(h) == registry[interner[h.key]]

\* C19: named is injective and stable on names: two Distributors that named
\* returned are equal exactly when they were asked for under the same name,
\* whatever the order and number of the calls before; a repeated call
\* returns the value the first call for that name returned; and two
\* Distributors of the same name address the same group.
C19_NamedInjectiveStable ==
    /\ [](\A h1, h2 \in handles : (h1.key = h2.key) <=> (h1.name = h2.name))
    /\ [](\A h \in handles :
            /\ h.key \in 1..Len(interner)
            /\ interner[h.key] = h.name)
    /\ [](\A h1, h2 \in handles : h1.name = h2.name => GroupOf(h1) = GroupOf(h2))
    /\ [][\A n \in Names :
              named(n) =>
                  /\ \A h \in handles : (h.name = n) <=> (last'.res = Ok(h.key))
                  /\ handles \subseteq handles']_vars

C19_Witness ==
    /\ interner = <<"H", "G">>
    /\ handles = {[name |-> "H", key |-> 1], [name |-> "G", key |-> 2]}
    /\ last.op = "named"
    /\ last.name = "H"
    /\ last.res = Ok(1)
    /\ registry["H"] # {}
    /\ registry["G"] # registry["H"]

\* C20: tell_one and ask_one on a group with subscribers put the message in
\* the mailbox of exactly one endpoint, and that endpoint is a member of the
\* group when the call is made: no other mailbox changes, so no second
\* member gets a copy and no endpoint outside the group is chosen; ask_one
\* pairs its one new reply channel with that same endpoint.
C20_ExactlyOneMember ==
    /\ [][\A d \in Distributors, m \in Messages :
              (registry[d] # {} /\ tell_one(d, m)) =>
                  /\ last'.res = OkUnit
                  /\ \E e \in registry[d] :
                        /\ mailbox'[e] = Append(mailbox[e], TellMsg(m))
                        /\ \A f \in ChildRefs \ {e} : mailbox'[f] = mailbox[f]]_vars
    /\ [][\A d \in Distributors, q \in Messages :
              (registry[d] # {} /\ ask_one(d, q)) =>
                  /\ last'.res.kind = "Ok"
                  /\ LET s == last'.res.slot
                     IN /\ IsFree(s)
                        /\ \A t \in Slots \ {s} : slots'[t] = slots[t]
                        /\ \E e \in registry[d] :
                              /\ mailbox'[e] = Append(mailbox[e], AskMsg(q, s))
                              /\ slots'[s] = Pending(e)
                              /\ \A f \in ChildRefs \ {e} :
                                    mailbox'[f] = mailbox[f]]_vars

C20_Witness ==
    /\ last.op = "ask_one"
    /\ last.pre = ChildRefs
    /\ last.res.kind = "Ok"
    /\ \E e \in ChildRefs :
          /\ mailbox[e] = <<TellMsg("hello"), AskMsg("hello", last.res.slot)>>
          /\ slots[last.res.slot] = Pending(e)
          /\ \A f \in ChildRefs \ {e} : mailbox[f] = <<>>

\* The branch that ended a task: the middle state it went through.
MiddleStates == {"Replied", "TimedOut", "AskFailed"}

\* C21: every request, request_sync and request_timeout call follows
\* Created -> AskSent -> {Replied | TimedOut | AskFailed} -> Delivered: a call
\* is Delivered exactly when it went through one of the three middle states,
\* Replied and TimedOut after the ask was sent and AskFailed straight from the
\* failed ask; TimedOut only in request_timeout; a Delivered call never
\* changes again, so it leaves neither Delivered nor its middle state.
C21_StateMachine ==
    /\ [](\A c \in Calls :
            /\ calls[c].pc \in {"none", "Created", "AskSent", "Delivered"}
            /\ Delivered(c) <=> calls[c].via \in MiddleStates
            /\ ~Delivered(c) => calls[c].via = "none"
            /\ calls[c].via = "TimedOut" => IsTimeoutCall(c)
            /\ calls[c].via \in {"Replied", "TimedOut"} => calls[c].slot \in Slots
            /\ calls[c].via = "AskFailed" => calls[c].slot = 0)
    /\ [][\A c \in Calls :
              calls'[c] # calls[c] =>
                  \/ calls[c].pc = "none" /\ calls'[c].pc = "Created"
                  \/ calls[c].pc = "Created" /\ calls'[c].pc = "AskSent"
                  \/ /\ calls[c].pc = "Created"
                     /\ calls'[c].pc = "Delivered"
                     /\ calls'[c].via = "AskFailed"
                  \/ calls[c].pc = "AskSent" /\ calls'[c].pc = "AskSent"
                  \/ /\ calls[c].pc = "AskSent"
                     /\ calls'[c].pc = "Delivered"
                     /\ calls'[c].via \in {"Replied", "TimedOut"}]_vars
    /\ [][\A c \in Calls : Delivered(c) => calls'[c] = calls[c]]_vars

C21_Witness ==
    \E c \in Calls :
        /\ calls[c].variant = "request_timeout"
        /\ Delivered(c)
        /\ calls[c].via = "TimedOut"
        /\ calls[c].slot \in Slots
        /\ slots[calls[c].slot].state = "pending"

\* C24: a request, request_sync or request_timeout task whose group has
\* subscribers puts its question in the mailbox of exactly one of them, with
\* the one reply channel it creates and then awaits; the other subscribers,
\* and the endpoints outside the group, get nothing from that call, and no
\* later step of the task sends a message or creates a channel.
C24_RequestAsksOneMember ==
    /\ [][\A c \in Calls :
              (calls[c].pc = "Created" /\ registry[calls[c].name] # {} /\ TaskAsk(c)) =>
                  /\ calls'[c].pc = "AskSent"
                  /\ LET s == calls'[c].slot
                     IN /\ s \in Slots
                        /\ IsFree(s)
                        /\ \A t \in Slots \ {s} : slots'[t] = slots[t]
                        /\ \E e \in registry[calls[c].name] :
                              /\ mailbox'[e] = Append(mailbox[e], AskMsg(calls[c].q, s))
                              /\ slots'[s] = Pending(e)
                              /\ \A f \in ChildRefs \ {e} :
                                    mailbox'[f] = mailbox[f]]_vars
    /\ [][\A c \in Calls :
              (calls[c].pc \in {"AskSent", "Delivered"} /\ calls'[c] # calls[c]) =>
                  /\ mailbox' = mailbox
                  /\ slots' = slots
                  /\ calls'[c].slot = calls[c].slot]_vars

C24_Witness ==
    \E c \in Calls :
        /\ calls[c].variant = "request_sync"
        /\ calls[c].pc = "AskSent"
        /\ registry[calls[c].name] = ChildRefs
        /\ \A s \in Slots \ {calls[c].slot} : IsFree(s)
        /\ \E e \in ChildRefs :
              /\ mailbox[e] = <<AskMsg(calls[c].q, calls[c].slot)>>
              /\ slots[calls[c].slot] = Pending(e)
              /\ \A f \in ChildRefs \ {e} : mailbox[f] = <<>>

\* C22: when request calls run concurrently, against the same group or
\* against different ones, each caller's receiver gets the reply the child
\* gave to that caller's own question: the calls await different reply
\* channels, each channel went out with the question of the call awaiting
\* it, and a call that ends with a reply ends with the answer to its own
\* question, whatever the order of the asks and the replies.
C22_RepliesCorrelated ==
    /\ \A c1, c2 \in PairCalls :
           (c1 # c2 /\ calls[c1].slot # 0) => calls[c1].slot # calls[c2].slot
    /\ \A c \in PairCalls :
           (calls[c].pc = "AskSent" /\ slots[calls[c].slot].state = "pending") =>
               \E i \in 1..Len(mailbox[slots[calls[c].slot].to]) :
                   mailbox[slots[calls[c].slot].to][i] = AskMsg(calls[c].q, calls[c].slot)
    /\ \A c \in PairCalls :
           (calls[c].slot # 0 /\ slots[calls[c].slot].state = "replied") =>
               slots[calls[c].slot].reply = AnswerTo(calls[c].q)
    /\ \A c \in PairCalls :
           Delivered(c) =>
               /\ calls[c].sent = 1
               /\ calls[c].result = IF registry[calls[c].name] = {}
                                     THEN Err(Unreachable)
                                     ELSE Ok(AnswerTo(calls[c].q).val)

C22_Witness ==
    /\ Delivered(1) /\ Delivered(2)
    /\ calls[1].name = calls[2].name
    /\ calls[1].q = "q2" /\ calls[2].q = "q1"
    /\ slots[calls[1].slot].to = slots[calls[2].slot].to
    /\ calls[1].slot = 2 /\ calls[2].slot = 1
    /\ calls[1].result = Ok(7)
    /\ calls[2].result = Ok(42)

\* The caller of task c dropped its receiver.
ReceiverDropped(c) == calls[c].rx = "dropped"

\* C26: when the caller drops the receiver before the outcome is known, the
\* task still runs to its end on every path (reply, dropped reply channel,
\* timeout, failed ask): it takes the steps it would have taken, it ends as
\* soon as the child, the Delay or the ask lets it, the failed send leaves no
\* Result anywhere and is no error (the task ends Delivered, in no other
\* state), and no step of it, nor the drop itself, changes another call.
C26_DroppedReceiverIgnored ==
    /\ [](\A c \in PairCalls :
            /\ calls[c].pc \in {"none", "Created", "AskSent", "Delivered"}
            /\ ReceiverDropped(c) =>
                  /\ calls[c].result = NoResult
                  /\ calls[c].sent = 0
                  /\ Delivered(c) <=> calls[c].via \in MiddleStates)
    /\ [][\A c \in PairCalls :
              calls'[c] # calls[c] =>
                  /\ \A o \in PairCalls \ {c} : calls'[o] = calls[o]
                  /\ DropReceiver(c) => <<mailbox', slots'>> = <<mailbox, slots>>
                  /\ ReceiverDropped(c) =>
                        /\ ReceiverDropped(c)'
                        /\ calls[c].pc = "Created" =>
                              calls'[c].pc \in {"AskSent", "Delivered"}
                        /\ calls[c].pc = "AskSent" =>
                              calls'[c].pc \in {"AskSent", "Delivered"}
                        /\ calls[c].pc # "Delivered"]_vars
    /\ \A c \in PairCalls :
           (ReceiverDropped(c) /\ ~Delivered(c)) ~> (Delivered(c) \/ WaitingOnChild(c))

C26_Witness ==
    \E c, o \in PairCalls :
        /\ ReceiverDropped(c)
        /\ Delivered(c)
        /\ calls[c].via = "Replied"
        /\ calls[c].slot \in Slots
        /\ slots[calls[c].slot].state = "replied"
        /\ calls[c].sent = 0
        /\ calls[c].result = NoResult
        /\ o # c
        /\ Delivered(o)
        /\ ~ReceiverDropped(o)
        /\ calls[o].result = Ok(42)

\* C25: only subscribe and unsubscribe change a subscriber set, so no sending
\* operation does, whether it returns Ok or an error: a step that changes the
\* registry delivers nothing, creates no reply channel and moves no request task,
\* it is a subscribe or an unsubscribe, and when it is a subscribe on name d the
\* set of every other name is as it was.
C25_SendsLeaveRegistry ==
    [][registry' # registry =>
          /\ mailbox' = mailbox
          /\ slots' = slots
          /\ calls' = calls
          /\ \E d \in Distributors, e \in ChildRefs :
                \/ /\ subscribe(d, e)
                   /\ \A n \in Distributors \ {d} : registry'[n] = registry[n]
                \/ unsubscribe(d, e)
      ]_vars

\* A request on "H" was answered and its Result sent, and an unsubscribe was the
\* last call to return: both groups still have members.
C25_Witness ==
    \E c \in DOMAIN calls :
        /\ calls[c].pc = "Delivered"
        /\ calls[c].via = "Replied"
        /\ calls[c].name = "H"
        /\ calls[c].result.kind = "Ok"
        /\ last.op = "unsubscribe"
        /\ registry["H"] # {}
        /\ registry["G"] # {}

\* The endpoints that have got a copy of the broadcast.
Receivers == {e \in ChildRefs : mailbox[e] # <<>>}

\* C23: a tell_everyone or ask_everyone delivered while other actors subscribe and
\* unsubscribe puts at most one copy in any mailbox, and when it returns the
\* endpoints that got a copy are exactly a membership its group had at one
\* instant of the call (the one of the snapshot), never a mixture.
C23_ConsistentSnapshot ==
    broadcast.phase # "idle" =>
        /\ \A e \in ChildRefs : Len(mailbox[e]) <= 1
        /\ broadcast.phase = "done" =>
              /\ Receivers \in broadcast.seen
              /\ Receivers = broadcast.snap

\* A broadcast returned after its group had three different memberships during
\* the call, and the group is no longer the one that was served.
C23_Witness ==
    /\ broadcast.phase = "done"
    /\ Cardinality(broadcast.seen) >= 3
    /\ Cardinality(broadcast.snap) >= 2
    /\ registry[broadcast.name] # broadcast.snap
    /\ last.op = broadcast.kind
====
